---- MODULE Spec2Model ----
(***************************************************************************)
(* Model of the audit-event simulation engine of exampleapp:               *)
(*   src/src/server/services/auditSimulator.ts  (class AuditSimulator)     *)
(*   src/src/server/utils/generators.ts         (random fact generators)   *)
(*                                                                         *)
(* Node's event loop is modelled as one action per callback segment: a     *)
(* timer callback or the continuation of an `await` runs to completion,    *)
(* and a segment ends where the code awaits the store.  Math.random()      *)
(* draws are \E over small sets.  The store (Prisma) is the environment:   *)
(* each query is answered in a later step, with a result or an error.      *)
(* The clock `now` counts hours.                                           *)
(***************************************************************************)
EXTENDS Integers, Sequences, FiniteSets, TLC

(* ---------------------------------------------------------------- bounds *)
MaxStarts == 2       \* calls of start()
MaxTicks == 1        \* firings of the steady-generation interval (SpecGen)
MaxSweepTicks == 2   \* firings of the steady-generation interval (SpecSweep)
MaxFailTicks == 2    \* firings of the steady-generation interval (SpecGenFail)
MaxSweeps == 2       \* retention sweeps started
MaxAdvances == 2     \* clock advances
MaxAttacks == 1      \* calls of injectAttack()
MaxOverlap == 2      \* calls of injectAttack() (SpecOverlap)

(* ------------------------------------------------------------- constants *)
Null == "null"
NoHandle == 0
TakeRecent == 10                 \* take: 10 of getRandomUsers / getRandomFiles
RetentionDays == 30              \* LOG_RETENTION_DAYS default
HoursPerDay == 24
AdvanceHours == 720              \* one clock advance of the model: 30 days
AttackWindowMs == 50000          \* the 50 second window of injectAttack

\* ids of the rows the CRUD layer can create, in the order it assigns them
UserPool == <<"u1", "u2">>
FilePool == <<"f1", "f2", "f3">>
UserIds == {UserPool[i] : i \in 1..Len(UserPool)}
FileIds == {FilePool[i] : i \in 1..Len(FilePool)}
Rank(pool, x) == CHOOSE i \in 1..Len(pool) : pool[i] = x
\* file.ownerId of each file link
OwnerOf(f) == IF f = "f2" THEN "u2" ELSE "u1"

EVENT_TYPES == <<"login", "download", "failedLogin", "failedDownload">>
USER_AGENTS == <<"ua1", "ua2">>
\* addresses generateRandomIP() can return (two of them stand for the pool)
IPPool == {"ip1", "ip2"}
\* the address and the agent of a steady event take no part in any decision of
\* the simulator: generateEvent() draws one representative of each
GenIPs == {"ip1"}
GenUaDraws == {0}
\* Math.random() in hundredths.  The draws that choose a type lie around every
\* threshold of lines 52-63, the draws that index an array reach every index of
\* an array of up to three elements, the draws of line 81 lie around 0.3
TypeDraws == {49, 50, 69, 70, 79, 80, 89, 90}
IndexDraws == {0, 50, 99}
OwnerDraws == {29, 30}

Min(a, b) == IF a < b THEN a ELSE b
Range(s) == {s[i] : i \in 1..Len(s)}
\* the first n elements of a sequence
Take(s, n) == SubSeq(s, 1, Min(n, Len(s)))
RECURSIVE Without(_, _)
Without(s, x) ==
  IF s = <<>> THEN <<>>
  ELSE IF Head(s) = x THEN Without(Tail(s), x)
  ELSE <<Head(s)>> \o Without(Tail(s), x)
RECURSIVE Reverse(_)
Reverse(s) == IF s = <<>> THEN <<>> ELSE Append(Reverse(Tail(s)), Head(s))

VARIABLES
  users,           \* user table, newest first (createdAt desc)
  files,           \* file-link table, newest first (createdAt desc)
  auditLog,        \* audit store: set of event rows
  now,             \* clock, in hours
  advances,        \* number of clock advances so far
  intervalId,      \* AuditSimulator.intervalId: a timer handle or NoHandle
  spikeTimeoutId,  \* AuditSimulator.spikeTimeoutId: a timer handle or NoHandle
  isSpike,         \* AuditSimulator.isSpike
  timers,          \* pending timers of the simulator: set of Timer records
  starts,          \* number of start() calls so far
  stopped,         \* stop() has returned and start() was not called since
  gen,             \* generateEvent() invocations, one per steady tick
  sweeps,          \* cleanupOldLogs() invocations
  attacks,         \* injectAttack() invocations
  attackTimers,    \* pending one-shot timers of attack bursts
  attackWrites,    \* attack-burst callbacks awaiting their create
  unhandled,       \* number of promise rejections no handler caught
  ipCall,          \* a call of generateRandomIP(): its draws and its result
  typeCall,        \* lines 46-65 run alone: their inputs and the type chosen
  proc,            \* the server process: "running", "shutting" or "exited"
  issued,          \* the ids the store has assigned so far
  seed             \* seedDatabase(): the statement it has reached

vars == <<users, files, auditLog, now, advances, intervalId, spikeTimeoutId,
          isSpike, timers, starts, stopped, gen, sweeps, attacks, attackTimers,
          attackWrites, unhandled, ipCall, typeCall, proc, issued, seed>>

storeVars == <<users, files, auditLog>>
clockVars == <<now, advances>>
simVars == <<intervalId, spikeTimeoutId, isSpike, timers, starts, stopped>>
attackVars == <<attacks, attackTimers, attackWrites, unhandled>>
procVars == <<proc, issued, seed>>

(* ------------------------------------------------------------ the events *)
\* data of prisma.auditLog.create; `origin` names the writer (not a column):
\* <<"steady", tick, 0>> or <<"attack", invocation, index>>
Event(type, user, file, ip, ua, details, origin) ==
  [eventType |-> type, userId |-> user, fileId |-> file, ipAddress |-> ip,
   userAgent |-> ua, details |-> details, origin |-> origin]
NoEvent == Event("none", Null, Null, "none", "none", Null, <<"none", 0, 0>>)
\* the stored row: the data plus the timestamp the store assigns at creation
Row(data, t) ==
  [eventType |-> data.eventType, userId |-> data.userId, fileId |-> data.fileId,
   ipAddress |-> data.ipAddress, userAgent |-> data.userAgent,
   details |-> data.details, origin |-> data.origin, timestamp |-> t]

\* lines 46-65 of generateEvent() are not being run alone
NoTypeCall == [pick |-> "none", spike |-> FALSE, r |-> 0, out |-> "none"]
\* no call of generateRandomIP() is under way
NoCall == [range |-> 0, draw |-> 0, out |-> <<>>]

Init ==
  /\ users = <<>>
  /\ files = <<>>
  /\ auditLog = {}
  /\ now = 0
  /\ advances = 0
  /\ intervalId = NoHandle
  /\ spikeTimeoutId = NoHandle
  /\ isSpike = FALSE
  /\ timers = {}
  /\ starts = 0
  /\ stopped = FALSE
  /\ gen = <<>>
  /\ sweeps = <<>>
  /\ attacks = <<>>
  /\ attackTimers = {}
  /\ attackWrites = {}
  /\ unhandled = 0
  /\ proc = "running"
  /\ issued = {}
  /\ seed = "idle"
  /\ ipCall = NoCall
  /\ typeCall = NoTypeCall

\* the server process is alive: its callbacks run and its routes answer
Running == proc # "exited"

(* ------------------------------------------- the CRUD layer and the clock *)
\* the audit rows name a user and a file link through relations of the store:
\* a row can be created only while the rows it names exist
Referenced(data, us, fs) ==
  /\ data.userId = Null \/ data.userId \in Range(us)
  /\ data.fileId = Null \/ data.fileId \in Range(fs)

\* the file links of the user u
LinksOf(u, fs) == {f \in Range(fs) : OwnerOf(f) = u}

\* a new row has a new id: one the store has never assigned, also not to a row
\* deleted since (the pool assigns the ids in order)
CreateUser(u) ==
  /\ Running
  /\ \A v \in issued \cap UserIds : Rank(UserPool, v) < Rank(UserPool, u)
  /\ users' = <<u>> \o users
  /\ issued' = issued \cup {u}
  /\ UNCHANGED <<ipCall, typeCall, proc, seed, files, auditLog, clockVars, simVars, gen,
                 sweeps, attackVars>>

\* prisma.user.delete: the delete cascades to the file links of the user and to
\* the audit rows that name the user or one of these links
DeleteUser(u) ==
  /\ Running
  /\ u \in Range(users)
  /\ users' = Without(users, u)
  /\ files' = SelectSeq(files, LAMBDA f : OwnerOf(f) # u)
  /\ auditLog' = {e \in auditLog :
                    e.userId # u /\ e.fileId \notin LinksOf(u, files)}
  /\ UNCHANGED <<ipCall, typeCall, procVars, clockVars, simVars, gen, sweeps, attackVars>>

\* prisma.fileSharingLink.create: a link is created for an owner that exists
\* (a request without ownerId or with an unknown one creates no row)
CreateFile(f) ==
  /\ Running
  /\ \A g \in issued \cap FileIds : Rank(FilePool, g) < Rank(FilePool, f)
  /\ OwnerOf(f) \in Range(users)
  /\ files' = <<f>> \o files
  /\ issued' = issued \cup {f}
  /\ UNCHANGED <<ipCall, typeCall, proc, seed, users, auditLog, clockVars, simVars, gen,
                 sweeps, attackVars>>

\* prisma.fileSharingLink.delete: the audit rows of the link go with it
DeleteFile(f) ==
  /\ Running
  /\ f \in Range(files)
  /\ files' = Without(files, f)
  /\ auditLog' = {e \in auditLog : e.fileId # f}
  /\ UNCHANGED <<ipCall, typeCall, procVars, users, clockVars, simVars, gen, sweeps,
                 attackVars>>

\* seedDatabase(), run by `npm run prisma:seed` beside the server: line 19
SeedAuditLogs ==
  /\ Running
  /\ seed = "idle"
  /\ auditLog' = {}
  /\ seed' = "auditLogs"
  /\ UNCHANGED <<ipCall, typeCall, proc, issued, users, files, clockVars, simVars, gen,
                 sweeps, attackVars>>

\* line 20: every file link is deleted, and with it the audit rows that name one
SeedLinks ==
  /\ Running
  /\ seed = "auditLogs"
  /\ files' = <<>>
  /\ auditLog' = {e \in auditLog : e.fileId = Null}
  /\ seed' = "links"
  /\ UNCHANGED <<ipCall, typeCall, proc, issued, users, clockVars, simVars, gen, sweeps,
                 attackVars>>

\* lines 22-28: every user but the admin is deleted (at most one user of the
\* table has the admin's address), with their links and their audit rows; the
\* users and links the seed then creates are rows CreateUser and CreateFile add
SeedUsers ==
  /\ Running
  /\ seed = "links"
  /\ \E admin \in {a \in SUBSET Range(users) : Cardinality(a) <= 1} :
       /\ users' = SelectSeq(users, LAMBDA u : u \in admin)
       /\ files' = SelectSeq(files, LAMBDA f : OwnerOf(f) \in admin)
       /\ auditLog' = {e \in auditLog :
                         /\ e.userId = Null \/ e.userId \in admin
                         /\ e.fileId = Null \/ OwnerOf(e.fileId) \in admin}
  /\ seed' = "users"
  /\ UNCHANGED <<ipCall, typeCall, proc, issued, clockVars, simVars, gen, sweeps, attackVars>>

AdvanceClock ==
  /\ Running
  /\ advances < MaxAdvances
  /\ now' = now + AdvanceHours
  /\ advances' = advances + 1
  /\ UNCHANGED <<ipCall, typeCall, procVars, storeVars, simVars, gen, sweeps, attackVars>>

(* ------------------------------------------------------- start() / stop() *)
\* the process ends: every timer of it and every answer it awaits is gone
ProcessEnds ==
  /\ proc' = "exited"
  /\ timers' = {}
  /\ attackTimers' = {}
  /\ attackWrites' = {}

\* clearInterval / clearTimeout: the timer with that handle no longer fires
ClearTimer(ts, h) == {t \in ts : t.id # h}

\* a pending timer (sibling: for the two timers of startCleanupTask(), the
\* handle of the other one; NoHandle otherwise)
Timer(id, kind, sibling) == [id |-> id, kind |-> kind, sibling |-> sibling]

\* the handle setInterval / setTimeout returns: a new object, here the least
\* number that is neither the handle of a pending timer nor held in a field
RECURSIVE Fresh(_, _)
Fresh(used, h) == IF h \in used THEN Fresh(used, h + 1) ELSE h
HandlesInUse == {t.id : t \in timers} \cup {intervalId, spikeTimeoutId}
NewHandle(used) == Fresh(used \cup {NoHandle}, 1)

\* scheduleNextSpike(): a one-shot timer after a random 60..360 s, whose handle
\* is kept in spikeTimeoutId (the random delay is not modelled: timers of
\* different chains fire in any order)
ScheduleNextSpike(h) == Timer(h, "nextSpike", NoHandle)

\* a startCleanupTask() that arms the 10 s timer only
StartCleanupTaskNoInterval(h1, h2) ==
  {Timer(h2, "cleanupInitial", h1)}

\* startCleanupTask(): the hourly interval and the one-shot 10 s timer; neither
\* handle is kept (sibling: the handle of the 10 s timer armed with the interval)
StartCleanupTask(h1, h2) ==
  {Timer(h1, "cleanupInterval", h2), Timer(h2, "cleanupInitial", h1)}

Start ==
  /\ Running
  /\ starts < MaxStarts
  /\ LET h1 == NewHandle(HandlesInUse)
         h2 == NewHandle(HandlesInUse \cup {h1})
         h3 == NewHandle(HandlesInUse \cup {h1, h2})
         h4 == NewHandle(HandlesInUse \cup {h1, h2, h3})
     IN  /\ intervalId' = h1
         /\ spikeTimeoutId' = h2
         /\ timers' = timers \cup {Timer(h1, "steady", NoHandle)}
                             \cup {ScheduleNextSpike(h2)}
                             \cup StartCleanupTask(h3, h4)
  /\ starts' = starts + 1
  /\ stopped' = FALSE
  /\ UNCHANGED <<ipCall, typeCall, procVars, storeVars, clockVars, isSpike, gen, sweeps, attackVars>>

\* a stop() that forgets clearInterval
StopTimersKeepInterval(ts, interval, spikeTimeout) ==
  IF spikeTimeout # NoHandle THEN ClearTimer(ts, spikeTimeout) ELSE ts

\* a stop() that also drops the timer ending an open spike window
StopTimersDropSpikeEnd(ts, interval, spikeTimeout) ==
  LET t1 == IF interval # NoHandle THEN ClearTimer(ts, interval) ELSE ts
      t2 == IF spikeTimeout # NoHandle THEN ClearTimer(t1, spikeTimeout) ELSE t1
  IN  {t \in t2 : t.kind # "spikeEnd"}

\* the timers left pending by stop()
StopTimers(ts, interval, spikeTimeout) ==
  LET t1 == IF interval # NoHandle THEN ClearTimer(ts, interval) ELSE ts
  IN  IF spikeTimeout # NoHandle THEN ClearTimer(t1, spikeTimeout) ELSE t1

\* a stop() that also abandons the invocations of generateEvent() in flight
StopCancelsInFlight ==
  /\ Running
  /\ intervalId' = NoHandle
  /\ spikeTimeoutId' = NoHandle
  /\ timers' = StopTimers(timers, intervalId, spikeTimeoutId)
  /\ stopped' = TRUE
  /\ gen' = [i \in 1..Len(gen) |->
               IF gen[i].pc = "done" THEN gen[i]
               ELSE [pc |-> "done", users |-> <<>>, firedSpike |-> FALSE,
                     readSpike |-> FALSE, type |-> gen[i].type,
                     data |-> NoEvent, outcome |-> "cancelled"]]
  /\ UNCHANGED <<ipCall, typeCall, procVars, storeVars, clockVars, isSpike, starts, sweeps, attackVars>>

\* a stop() that also clears the timers of the attack bursts
StopClearsBurst ==
  /\ Running
  /\ intervalId' = NoHandle
  /\ spikeTimeoutId' = NoHandle
  /\ timers' = StopTimers(timers, intervalId, spikeTimeoutId)
  /\ stopped' = TRUE
  /\ attackTimers' = {}
  /\ UNCHANGED <<ipCall, typeCall, procVars, storeVars, clockVars, isSpike, starts, gen, sweeps,
                 attacks, attackWrites, unhandled>>

Stop ==
  /\ Running
  /\ intervalId' = NoHandle
  /\ spikeTimeoutId' = NoHandle
  /\ timers' = StopTimers(timers, intervalId, spikeTimeoutId)
  /\ stopped' = TRUE
  /\ UNCHANGED <<ipCall, typeCall, procVars, storeVars, clockVars, isSpike, starts, gen, sweeps, attackVars>>

\* SIGINT or SIGTERM reaches the server: the listener of auditSimulator.ts calls
\* stop(), the listener of index.ts starts the shutdown and awaits the
\* disconnect of its store client
Signal ==
  /\ Running
  /\ intervalId' = NoHandle
  /\ spikeTimeoutId' = NoHandle
  /\ timers' = StopTimers(timers, intervalId, spikeTimeoutId)
  /\ stopped' = TRUE
  /\ proc' = "shutting"
  /\ UNCHANGED <<ipCall, typeCall, issued, seed, storeVars, clockVars, isSpike, starts, gen,
                 sweeps, attackVars>>

\* the disconnect has answered: process.exit(0)
Exit ==
  /\ proc = "shutting"
  /\ ProcessEnds
  /\ UNCHANGED <<ipCall, typeCall, issued, seed, storeVars, clockVars, intervalId,
                 spikeTimeoutId, isSpike, starts, stopped, gen, sweeps, attacks, unhandled>>

\* the disconnect rejects: the await throws inside the async listener, nothing
\* catches it, process.exit(0) is not reached and Node ends the process on the
\* unhandled rejection
ExitFail ==
  /\ proc = "shutting"
  /\ ProcessEnds
  /\ unhandled' = unhandled + 1
  /\ UNCHANGED <<ipCall, typeCall, issued, seed, storeVars, clockVars, intervalId,
                 spikeTimeoutId, isSpike, starts, stopped, gen, sweeps, attacks>>

(* -------------------------------------------------------- the spike cycle *)
\* the timer of scheduleNextSpike() fires: startSpike() opens a window and arms
\* the timer that ends it after a random 15..45 s; that handle is not kept, and
\* spikeTimeoutId still holds the handle of the timer that has just fired
SpikeStart ==
  /\ Running
  /\ \E t \in timers :
       /\ t.kind = "nextSpike"
       /\ timers' = (timers \ {t})
                      \cup {Timer(NewHandle(HandlesInUse), "spikeEnd", NoHandle)}
  /\ isSpike' = TRUE
  /\ UNCHANGED <<ipCall, typeCall, procVars, storeVars, clockVars, intervalId, spikeTimeoutId, starts,
                 stopped, gen, sweeps, attackVars>>

\* a spike-end callback that does not call scheduleNextSpike()
SpikeEndNoReschedule ==
  /\ Running
  /\ \E t \in timers :
       /\ t.kind = "spikeEnd"
       /\ timers' = timers \ {t}
  /\ isSpike' = FALSE
  /\ UNCHANGED <<ipCall, typeCall, procVars, storeVars, clockVars, intervalId, spikeTimeoutId, starts,
                 stopped, gen, sweeps, attackVars>>

\* the timer of startSpike() fires: the window ends, the next spike is scheduled
SpikeEnd ==
  /\ Running
  /\ \E t \in timers :
       /\ t.kind = "spikeEnd"
       /\ LET h == NewHandle(HandlesInUse)
          IN  /\ timers' = (timers \ {t}) \cup {ScheduleNextSpike(h)}
              /\ spikeTimeoutId' = h
  /\ isSpike' = FALSE
  /\ UNCHANGED <<ipCall, typeCall, procVars, storeVars, clockVars, intervalId, starts, stopped, gen, sweeps,
                 attackVars>>

(* ---------------------------------------------------------- generateEvent *)
\* getRandomElement(array) with Math.random() = r / 100
GetRandomElement(s, r) == s[((r * Len(s)) \div 100) + 1]

\* a spike branch that draws login instead of failedLogin
ChooseTypeSpikeLogin(pick, spike, r) ==
  IF spike
  THEN IF r < 70 THEN "login" ELSE "failedDownload"
  ELSE IF r < 50 THEN "download"
       ELSE IF r < 80 THEN "login"
       ELSE IF r < 90 THEN "failedDownload"
       ELSE "failedLogin"

\* a steady branch that keeps the uniform first pick for r >= 0.9
ChooseTypeKeepsPick(pick, spike, r) ==
  IF spike
  THEN IF r < 70 THEN "failedLogin" ELSE "failedDownload"
  ELSE IF r < 50 THEN "download"
       ELSE IF r < 80 THEN "login"
       ELSE IF r < 90 THEN "failedDownload"
       ELSE pick

\* lines 46-65: the event type, from the uniform first pick, the spike flag
\* and the draw r (hundredths)
ChooseType(pick, spike, r) ==
  IF spike
  THEN IF r < 70 THEN "failedLogin" ELSE "failedDownload"
  ELSE IF r < 50 THEN "download"
       ELSE IF r < 80 THEN "login"
       ELSE IF r < 90 THEN "failedDownload"
       ELSE "failedLogin"

IsLoginType(type) == type = "login" \/ type = "failedLogin"
IsDownloadType(type) == type = "download" \/ type = "failedDownload"

\* a login event that leaves the actor unset
LoginFieldsNoActor(type, us, rUser) ==
  [userId |-> Null, fileId |-> Null,
   details |-> IF type = "failedLogin" THEN "Invalid password attempt"
               ELSE "Successful login"]

\* lines 67-75: actor and details of a login event
LoginFields(type, us, rUser) ==
  [userId |-> GetRandomElement(us, rUser), fileId |-> Null,
   details |-> IF type = "failedLogin" THEN "Invalid password attempt"
               ELSE "Successful login"]

\* a download event that names the first user as actor when no file is there
DownloadFieldsDefaultActor(type, fs, rFile, rOwner) ==
  LET details == IF type = "failedDownload" THEN "Access denied - expired link"
                 ELSE "File downloaded successfully"
  IN  IF Len(fs) > 0
      THEN LET file == GetRandomElement(fs, rFile)
           IN  [userId |-> IF rOwner < 30 THEN OwnerOf(file) ELSE Null,
                fileId |-> file, details |-> details]
      ELSE [userId |-> UserPool[1], fileId |-> Null, details |-> details]

\* a download event whose actor is the owner of the newest file of the snapshot
DownloadFieldsNewestOwner(type, fs, rFile, rOwner) ==
  LET details == IF type = "failedDownload" THEN "Access denied - expired link"
                 ELSE "File downloaded successfully"
  IN  IF Len(fs) > 0
      THEN LET file == GetRandomElement(fs, rFile)
           IN  [userId |-> IF rOwner < 30 THEN OwnerOf(fs[1]) ELSE Null,
                fileId |-> file, details |-> details]
      ELSE [userId |-> Null, fileId |-> Null, details |-> details]

\* lines 76-86: actor, target and details of a download event
DownloadFields(type, fs, rFile, rOwner) ==
  LET details == IF type = "failedDownload" THEN "Access denied - expired link"
                 ELSE "File downloaded successfully"
  IN  IF Len(fs) > 0
      THEN LET file == GetRandomElement(fs, rFile)
           IN  [userId |-> IF rOwner < 30 THEN OwnerOf(file) ELSE Null,
                fileId |-> file, details |-> details]
      ELSE [userId |-> Null, fileId |-> Null, details |-> details]

\* an invocation of generateEvent() that has just been called
\* (users: the snapshot of line 43, kept until line 70 has used it; firedSpike,
\* readSpike: the spike flag when the tick fired and when line 51 read it)
NewGen(spike) ==
  [pc |-> "users", users |-> <<>>, firedSpike |-> spike, readSpike |-> FALSE,
   type |-> "none", data |-> NoEvent, outcome |-> "pending"]

\* an invocation that has returned: of its locals only the type it chose and
\* how it ended are remembered
Finished(type, outcome) ==
  [pc |-> "done", users |-> <<>>, firedSpike |-> FALSE, readSpike |-> FALSE,
   type |-> type, data |-> NoEvent, outcome |-> outcome]

\* an invocation that awaits its create, with the data of lines 89-96
Creating(g, type, spike, f, ip, ua, i) ==
  [pc |-> "create", users |-> <<>>, firedSpike |-> g.firedSpike,
   readSpike |-> spike, type |-> type,
   data |-> Event(type, f.userId, f.fileId, ip, ua, f.details, <<"steady", i, 0>>),
   outcome |-> "pending"]

\* the setInterval callback of start(): generateEvent() up to its first await
TickFire(limit) ==
  /\ Running
  /\ \E t \in timers : t.kind = "steady"
  /\ Len(gen) < limit
  /\ gen' = Append(gen, NewGen(isSpike))
  /\ UNCHANGED <<ipCall, typeCall, procVars, storeVars, clockVars, simVars, sweeps, attackVars>>

\* getRandomUsers() answers: the 10 newest users
UsersReturn(i) ==
  /\ Running
  /\ gen[i].pc = "users"
  /\ gen' = [gen EXCEPT ![i].users = Take(users, TakeRecent), ![i].pc = "files"]
  /\ UNCHANGED <<ipCall, typeCall, procVars, storeVars, clockVars, simVars, sweeps, attackVars>>

\* a catch that gives up the loop: it clears the steady interval
GenFailStopsLoop(i) ==
  /\ Running
  /\ gen[i].pc \in {"users", "files", "create"}
  /\ gen' = [gen EXCEPT ![i] = Finished(gen[i].type, "error")]
  /\ timers' = ClearTimer(timers, intervalId)
  /\ UNCHANGED <<ipCall, typeCall, procVars, storeVars, clockVars, intervalId, spikeTimeoutId, isSpike,
                 starts, stopped, sweeps, attackVars>>

\* a store call of generateEvent() rejects: the catch of line 98 logs it
GenFail(i) ==
  /\ Running
  /\ gen[i].pc \in {"users", "files", "create"}
  /\ gen' = [gen EXCEPT ![i] = Finished(gen[i].type, "error")]
  /\ UNCHANGED <<ipCall, typeCall, procVars, storeVars, clockVars, simVars, sweeps, attackVars>>

\* getRandomFiles() answers; lines 46-97 run up to the await of the create.
\* The draws of Math.random() are the elements of the sets below.
FilesReturn(i) ==
  /\ Running
  /\ gen[i].pc = "files"
  /\ LET fs == Take(files, TakeRecent)
         us == gen[i].users
         types == {ChooseType(pick, isSpike, r) :
                     pick \in Range(EVENT_TYPES), r \in TypeDraws}
         ips == GenIPs
         uas == {GetRandomElement(USER_AGENTS, r) : r \in GenUaDraws}
     IN  \E type \in types :
           IF IsLoginType(type)
           THEN IF Len(us) > 0
                THEN \E f \in {LoginFields(type, us, r) : r \in IndexDraws},
                        ip \in ips, ua \in uas :
                       gen' = [gen EXCEPT ![i] =
                                 Creating(gen[i], type, isSpike, f, ip, ua, i)]
                ELSE gen' = [gen EXCEPT ![i] =
                                 Finished(type, "skipped")]
           ELSE \E f \in {DownloadFields(type, fs, r1, r2) :
                            r1 \in IndexDraws, r2 \in OwnerDraws},
                   ip \in ips, ua \in uas :
                  gen' = [gen EXCEPT ![i] =
                            Creating(gen[i], type, isSpike, f, ip, ua, i)]
  /\ UNCHANGED <<ipCall, typeCall, procVars, storeVars, clockVars, simVars, sweeps, attackVars>>

\* a create that stores the event twice
CreateReturnTwice(i) ==
  /\ Running
  /\ gen[i].pc = "create"
  /\ Referenced(gen[i].data, users, files)
  /\ auditLog' = auditLog \cup {Row(gen[i].data, now),
                                Row([gen[i].data EXCEPT !.origin = <<"steady", i, 1>>],
                                    now)}
  /\ gen' = [gen EXCEPT ![i] = Finished(gen[i].type, "written")]
  /\ UNCHANGED <<ipCall, typeCall, procVars, users, files, clockVars, simVars, sweeps, attackVars>>

\* prisma.auditLog.create() answers: the row is stored (the store rejects a
\* row that names a user or a link deleted since the reads: GenFail)
CreateReturn(i) ==
  /\ Running
  /\ gen[i].pc = "create"
  /\ Referenced(gen[i].data, users, files)
  /\ auditLog' = auditLog \cup {Row(gen[i].data, now)}
  /\ gen' = [gen EXCEPT ![i] = Finished(gen[i].type, "written")]
  /\ UNCHANGED <<ipCall, typeCall, procVars, users, files, clockVars, simVars, sweeps, attackVars>>

(* ------------------------------------------------------ retention cleanup *)
\* line 153: the cutoff of a sweep that starts at time t (hours)
CutoffDate(t) == t - RetentionDays * HoursPerDay

\* a deleteMany with lte in place of lt
DeleteOlderOrEqual(log, cutoff) == {e \in log : ~(e.timestamp <= cutoff)}

\* lines 155-161: the rows deleteMany({timestamp: {lt: cutoff}}) leaves
DeleteOlder(log, cutoff) == {e \in log : ~(e.timestamp < cutoff)}

\* cleanupOldLogs() called at time t, up to the await of its deleteMany
\* (count: deletedCount.count, once the store has answered)
NewSweep(kind, t) ==
  [pc |-> "delete", kind |-> kind, at |-> t, cutoff |-> CutoffDate(t),
   count |-> 0, outcome |-> "pending"]

\* the 10 s one-shot timer of startCleanupTask() fires: cleanupOldLogs() up to
\* the await of its deleteMany
SweepFireInitial ==
  /\ Running
  /\ Len(sweeps) < MaxSweeps
  /\ \E t \in timers :
       /\ t.kind = "cleanupInitial"
       /\ timers' = timers \ {t}
  /\ sweeps' = Append(sweeps, NewSweep("initial", now))
  /\ UNCHANGED <<ipCall, typeCall, procVars, storeVars, clockVars, intervalId, spikeTimeoutId, isSpike,
                 starts, stopped, gen, attackVars>>

\* the hourly interval of startCleanupTask() fires; it was armed together with
\* its sibling, the 10 s timer, which fires first
SweepFireHourly ==
  /\ Running
  /\ Len(sweeps) < MaxSweeps
  /\ \E t \in timers :
       /\ t.kind = "cleanupInterval"
       /\ ~\E t2 \in timers : t2.kind = "cleanupInitial" /\ t2.id = t.sibling
  /\ sweeps' = Append(sweeps, NewSweep("hourly", now))
  /\ UNCHANGED <<ipCall, typeCall, procVars, storeVars, clockVars, simVars, gen, attackVars>>

\* deleteMany answers
SweepReturn(i) ==
  /\ Running
  /\ sweeps[i].pc = "delete"
  /\ auditLog' = DeleteOlder(auditLog, sweeps[i].cutoff)
  /\ sweeps' = [sweeps EXCEPT ![i].pc = "done", ![i].outcome = "ok",
                   ![i].count = Cardinality(auditLog) - Cardinality(auditLog')]
  /\ UNCHANGED <<ipCall, typeCall, procVars, users, files, clockVars, simVars, gen, attackVars>>

\* a cleanupOldLogs() without its try: the rejection leaves the timer callback
SweepFailEscapes(i) ==
  /\ Running
  /\ sweeps[i].pc = "delete"
  /\ sweeps' = [sweeps EXCEPT ![i].pc = "done", ![i].outcome = "error"]
  /\ unhandled' = unhandled + 1
  /\ UNCHANGED <<ipCall, typeCall, procVars, storeVars, clockVars, simVars, gen, attacks, attackTimers,
                 attackWrites>>

\* deleteMany rejects: the catch of line 166 logs it
SweepFail(i) ==
  /\ Running
  /\ sweeps[i].pc = "delete"
  /\ sweeps' = [sweeps EXCEPT ![i].pc = "done", ![i].outcome = "error"]
  /\ UNCHANGED <<ipCall, typeCall, procVars, storeVars, clockVars, simVars, gen, attackVars>>

(* ------------------------------------------------------------ injectAttack *)
\* milliseconds as exact fractions num / den (den = 0: the Infinity of 50000 / 0)
Ms(num, den) == [num |-> num, den |-> den]
MsLess(a, b) == a.num * b.den < b.num * a.den

\* line 178: the spacing 50000 / files.length
IntervalMs(n) == Ms(AttackWindowMs, n)

\* a delay counted from index + 1
DelayFromOne(index, intervalMs) == Ms((index + 1) * intervalMs.num, intervalMs.den)

\* line 196: the delay index * intervalMs of the timer of one file
Delay(index, intervalMs) == Ms(index * intervalMs.num, intervalMs.den)

\* prisma.fileSharingLink.findMany() without orderBy: the rows as inserted
AllFiles(table) == Reverse(table)

\* a burst that leaves out the last file of the snapshot
BurstTimersSkipLast(a, fs, ip, ua) ==
  {[inv |-> a, index |-> k - 1, n |-> Len(fs), file |-> fs[k], ip |-> ip,
    ua |-> ua, delay |-> Ms((k - 1) * AttackWindowMs, Len(fs))] :
     k \in 1..(Len(fs) - 1)}

\* lines 180-197: one timer per file of the snapshot (index from 0)
BurstTimers(a, fs, ip, ua) ==
  {[inv |-> a, index |-> k - 1, n |-> Len(fs), file |-> fs[k], ip |-> ip,
    ua |-> ua, delay |-> Delay(k - 1, IntervalMs(Len(fs)))] : k \in 1..Len(fs)}

\* lines 182-191: the event one burst timer writes
AttackEvent(t) ==
  Event("download", Null, t.file, t.ip, t.ua,
        "File downloaded successfully - ATTACK SIMULATION",
        <<"attack", t.inv, t.index>>)

\* an injectAttack() whose division by zero throws into the catch
StartedResultThrowsOnEmpty(fs, ip) ==
  IF Len(fs) = 0
  THEN [success |-> FALSE, message |-> "Failed to inject attack", count |-> 0,
        ip |-> "none"]
  ELSE [success |-> TRUE, message |-> "Attack injection started",
        count |-> Len(fs), ip |-> ip]

\* lines 199-202: the value injectAttack() resolves to
StartedResult(fs, ip) ==
  [success |-> TRUE, message |-> "Attack injection started", count |-> Len(fs),
   ip |-> ip]
\* a catch that rethrows: the call resolves to no result
FailedResultRethrown ==
  [success |-> FALSE, message |-> "none", count |-> 0, ip |-> "none"]
\* line 205: the value injectAttack() resolves to from its catch
FailedResult ==
  [success |-> FALSE, message |-> "Failed to inject attack", count |-> 0,
   ip |-> "none"]
NoResult == [success |-> FALSE, message |-> "none", count |-> 0, ip |-> "none"]

\* injectAttack() is called: it runs up to the await of its findMany
\* (read: whether findMany has answered; files, ip, ua: the locals of lines
\* 175-177; result: the value the call resolved to)
InjectAttackCallUpTo(limit) ==
  /\ Running
  /\ Len(attacks) < limit
  /\ attacks' = Append(attacks, [pc |-> "files", read |-> "pending",
                                 files |-> <<>>, ip |-> "none", ua |-> "none",
                                 result |-> NoResult])
  /\ UNCHANGED <<ipCall, typeCall, procVars, storeVars, clockVars, simVars, gen, sweeps, attackTimers,
                 attackWrites, unhandled>>

InjectAttackCall == InjectAttackCallUpTo(MaxAttacks)

\* an injectAttack() that issues the write of its first file before it returns
InjectAttackReturnIssuesFirst(a) ==
  /\ Running
  /\ attacks[a].pc = "files"
  /\ \E ip \in IPPool, ua \in {GetRandomElement(USER_AGENTS, r) : r \in IndexDraws} :
       LET fs == AllFiles(files)
           first == {t \in BurstTimers(a, fs, ip, ua) : t.index = 0}
       IN  /\ attackTimers' = attackTimers \cup (BurstTimers(a, fs, ip, ua) \ first)
           /\ attackWrites' = attackWrites \cup {AttackEvent(t) : t \in first}
           /\ attacks' = [attacks EXCEPT ![a] =
                            [pc |-> "returned", read |-> "ok", files |-> fs,
                             ip |-> ip, ua |-> ua,
                             result |-> StartedResult(fs, ip)]]
  /\ UNCHANGED <<ipCall, typeCall, procVars, storeVars, clockVars, simVars, gen, sweeps, unhandled>>

\* an injectAttack() whose burst replaces the timers of the bursts under way
InjectAttackReturnReplacesTimers(a) ==
  /\ Running
  /\ attacks[a].pc = "files"
  /\ \E ip \in IPPool, ua \in {GetRandomElement(USER_AGENTS, r) : r \in IndexDraws} :
       LET fs == AllFiles(files)
       IN  /\ attackTimers' = BurstTimers(a, fs, ip, ua)
           /\ attacks' = [attacks EXCEPT ![a] =
                            [pc |-> "returned", read |-> "ok", files |-> fs,
                             ip |-> ip, ua |-> ua,
                             result |-> StartedResult(fs, ip)]]
  /\ UNCHANGED <<ipCall, typeCall, procVars, storeVars, clockVars, simVars, gen, sweeps, attackWrites,
                 unhandled>>

\* findMany answers: lines 176-202 run, the burst is scheduled, the call returns
InjectAttackReturn(a) ==
  /\ Running
  /\ attacks[a].pc = "files"
  /\ \E ip \in IPPool, ua \in {GetRandomElement(USER_AGENTS, r) : r \in IndexDraws} :
       LET fs == AllFiles(files)
       IN  /\ attackTimers' = attackTimers \cup BurstTimers(a, fs, ip, ua)
           /\ attacks' = [attacks EXCEPT ![a] =
                            [pc |-> "returned", read |-> "ok", files |-> fs,
                             ip |-> ip, ua |-> ua,
                             result |-> StartedResult(fs, ip)]]
  /\ UNCHANGED <<ipCall, typeCall, procVars, storeVars, clockVars, simVars, gen, sweeps, attackWrites,
                 unhandled>>

\* findMany rejects: the catch of line 203
InjectAttackFail(a) ==
  /\ Running
  /\ attacks[a].pc = "files"
  /\ attacks' = [attacks EXCEPT ![a].pc = "returned", ![a].read = "error",
                                 ![a].result = FailedResult]
  /\ UNCHANGED <<ipCall, typeCall, procVars, storeVars, clockVars, simVars, gen, sweeps, attackTimers,
                 attackWrites, unhandled>>

\* a burst timer fires (the timers of one invocation in the order of their
\* delays): its callback runs up to the await of the create
AttackFire(t) ==
  /\ Running
  /\ t \in attackTimers
  /\ ~\E t2 \in attackTimers : t2.inv = t.inv /\ MsLess(t2.delay, t.delay)
  /\ attackTimers' = attackTimers \ {t}
  /\ attackWrites' = attackWrites \cup {AttackEvent(t)}
  /\ UNCHANGED <<ipCall, typeCall, procVars, storeVars, clockVars, simVars, gen, sweeps, attacks, unhandled>>

\* the create of a burst callback answers: the row is stored
AttackWriteReturn(w) ==
  /\ Running
  /\ w \in attackWrites
  /\ Referenced(w, users, files)
  /\ auditLog' = auditLog \cup {Row(w, now)}
  /\ attackWrites' = attackWrites \ {w}
  /\ UNCHANGED <<ipCall, typeCall, procVars, users, files, clockVars, simVars, gen, sweeps, attacks,
                 attackTimers, unhandled>>

\* the create of a burst callback rejects (a store error, or the link of the
\* write was deleted since the read): nothing catches the rejection of the
\* async callback, and Node ends the process on an unhandled rejection
AttackWriteFail(w) ==
  /\ Running
  /\ w \in attackWrites
  /\ unhandled' = unhandled + 1
  /\ ProcessEnds
  /\ UNCHANGED <<ipCall, typeCall, issued, seed, storeVars, clockVars, intervalId,
                 spikeTimeoutId, isSpike, starts, stopped, gen, sweeps, attacks>>

(* -------------------------------------------------------- generateRandomIP *)
\* the ranges of generators.ts lines 64-80, as range.split('/') and
\* network.split('.').map(Number) read them
AUSTRALIAN_IP_RANGES ==
  << [network |-> <<1, 128, 0, 0>>, prefix |-> 11],
     [network |-> <<14, 0, 0, 0>>, prefix |-> 8],
     [network |-> <<27, 0, 0, 0>>, prefix |-> 8],
     [network |-> <<58, 6, 0, 0>>, prefix |-> 15],
     [network |-> <<101, 160, 0, 0>>, prefix |-> 11],
     [network |-> <<103, 1, 8, 0>>, prefix |-> 22],
     [network |-> <<110, 4, 0, 0>>, prefix |-> 14],
     [network |-> <<115, 64, 0, 0>>, prefix |-> 10],
     [network |-> <<124, 148, 0, 0>>, prefix |-> 14],
     [network |-> <<139, 130, 0, 0>>, prefix |-> 16],
     [network |-> <<150, 101, 0, 0>>, prefix |-> 16],
     [network |-> <<163, 47, 0, 0>>, prefix |-> 16],
     [network |-> <<175, 45, 0, 0>>, prefix |-> 16],
     [network |-> <<180, 150, 0, 0>>, prefix |-> 15],
     [network |-> <<202, 0, 0, 0>>, prefix |-> 11] >>

Pow2(n) == 2 ^ n

\* the operands of the bitwise operators of JavaScript are 32-bit signed
\* integers, -2^31 .. 2^31 - 1, in two's complement
MinInt32 == (0 - 1073741824) - 1073741824
\* byte k of x (0: the lowest) and the integer of four bytes (b3 holds the sign)
Byte(x, k) == (x \div Pow2(8 * k)) % 256
FromBytes(b3, b2, b1, b0) ==
  (IF b3 >= 128 THEN b3 - 256 ELSE b3) * Pow2(24) + b2 * 65536 + b1 * 256 + b0
\* bit j of a byte, and the bitwise and / or of two bytes
Bit(a, j) == (a \div Pow2(j)) % 2
And8(a, b) ==
  Bit(a, 0) * Bit(b, 0) + 2 * Bit(a, 1) * Bit(b, 1) + 4 * Bit(a, 2) * Bit(b, 2)
    + 8 * Bit(a, 3) * Bit(b, 3) + 16 * Bit(a, 4) * Bit(b, 4)
    + 32 * Bit(a, 5) * Bit(b, 5) + 64 * Bit(a, 6) * Bit(b, 6)
    + 128 * Bit(a, 7) * Bit(b, 7)
Or8(a, b) == a + b - And8(a, b)
\* x & y, x | y, ~x
And32(x, y) ==
  FromBytes(And8(Byte(x, 3), Byte(y, 3)), And8(Byte(x, 2), Byte(y, 2)),
            And8(Byte(x, 1), Byte(y, 1)), And8(Byte(x, 0), Byte(y, 0)))
Or32(x, y) ==
  FromBytes(Or8(Byte(x, 3), Byte(y, 3)), Or8(Byte(x, 2), Byte(y, 2)),
            Or8(Byte(x, 1), Byte(y, 1)), Or8(Byte(x, 0), Byte(y, 0)))
Not32(x) ==
  FromBytes(255 - Byte(x, 3), 255 - Byte(x, 2), 255 - Byte(x, 1), 255 - Byte(x, 0))
\* x << n for 1 <= n <= 30: the low 32 - n bits move up, bit 31 - n becomes
\* the sign
Shl32(x, n) ==
  LET low == x % Pow2(32 - n)
  IN  IF low >= Pow2(31 - n) THEN (low - Pow2(32 - n)) * Pow2(n)
      ELSE low * Pow2(n)
\* x >>> n for 1 <= n <= 30: the 32 bits read as unsigned, shifted down
Ushr32(x, n) ==
  IF x >= 0 THEN x \div Pow2(n)
  ELSE ((x - MinInt32) \div Pow2(n)) + Pow2(31 - n)

\* lines 107-110: ip = (ip << 8) | networkParts[i] for the four parts, from
\* part k on
RECURSIVE PackOctets(_, _, _)
PackOctets(parts, k, ip) ==
  IF k > 4 THEN ip ELSE PackOctets(parts, k + 1, Or32(Shl32(ip, 8), parts[k]))

\* line 104: maxHosts = Math.pow(2, hostBits) - 2
MaxHosts(hostBits) == Pow2(hostBits) - 2

\* a host offset that starts at 0
RandomHostFromZero(floorDraw) == floorDraw

\* line 105: randomHost, where floorDraw is Math.floor(Math.random() * maxHosts),
\* any of 0 .. maxHosts - 1 since Math.random() is in [0, 1)
RandomHost(floorDraw) == floorDraw + 1

\* lines 97-122: the four octets generateRandomIP() joins with '.', for the
\* range it drew and the host draw
GenerateRandomIP(range, floorDraw) ==
  LET hostBits == 32 - range.prefix
      randomHost == RandomHost(floorDraw)
      ip == PackOctets(range.network, 1, 0)
      hostMask == Shl32(1, hostBits) - 1
      networkMask == Not32(hostMask)
      finalIP == Or32(And32(ip, networkMask), randomHost)
  IN  << And32(Ushr32(finalIP, 24), 255),
         And32(Ushr32(finalIP, 16), 255),
         And32(Ushr32(finalIP, 8), 255),
         And32(finalIP, 255) >>

\* the host draws of the model for a range of maxHosts hosts: both ends, the
\* middle, and the values around an octet boundary
HostDraws(maxHosts) ==
  {d \in {0, 1, 127, 128, 254, 255, 256, (maxHosts \div 2) - 1, maxHosts \div 2,
          maxHosts - 2, maxHosts - 1} : d < maxHosts}

\* a call of generateRandomIP() with its two draws made
InitIP ==
  /\ users = <<>>
  /\ files = <<>>
  /\ auditLog = {}
  /\ now = 0
  /\ advances = 0
  /\ intervalId = NoHandle
  /\ spikeTimeoutId = NoHandle
  /\ isSpike = FALSE
  /\ timers = {}
  /\ starts = 0
  /\ stopped = FALSE
  /\ gen = <<>>
  /\ sweeps = <<>>
  /\ attacks = <<>>
  /\ attackTimers = {}
  /\ attackWrites = {}
  /\ unhandled = 0
  /\ proc = "running"
  /\ issued = {}
  /\ seed = "idle"
  /\ \E r \in 1..Len(AUSTRALIAN_IP_RANGES) :
       \E d \in HostDraws(MaxHosts(32 - AUSTRALIAN_IP_RANGES[r].prefix)) :
         ipCall = [range |-> r, draw |-> d, out |-> <<>>]
  /\ typeCall = NoTypeCall

\* generateRandomIP() runs and returns
GenerateRandomIPCall ==
  /\ ipCall.range # 0
  /\ ipCall.out = <<>>
  /\ ipCall' = [ipCall EXCEPT
                  !.out = GenerateRandomIP(AUSTRALIAN_IP_RANGES[ipCall.range],
                                           ipCall.draw)]
  /\ UNCHANGED <<typeCall, procVars, storeVars, clockVars, simVars, gen, sweeps, attackVars>>

(* ------------------------------------------- the choice of the event type *)
\* every value of Math.random() in hundredths
AllDraws == 0..99

\* lines 46-65 of generateEvent() with their inputs drawn: the uniform pick of
\* line 46, the spike flag, the draw of line 52 or 55
InitType ==
  /\ users = <<>>
  /\ files = <<>>
  /\ auditLog = {}
  /\ now = 0
  /\ advances = 0
  /\ intervalId = NoHandle
  /\ spikeTimeoutId = NoHandle
  /\ isSpike = FALSE
  /\ timers = {}
  /\ starts = 0
  /\ stopped = FALSE
  /\ gen = <<>>
  /\ sweeps = <<>>
  /\ attacks = <<>>
  /\ attackTimers = {}
  /\ attackWrites = {}
  /\ unhandled = 0
  /\ proc = "running"
  /\ issued = {}
  /\ seed = "idle"
  /\ ipCall = NoCall
  /\ \E r1 \in AllDraws, r2 \in AllDraws, spike \in BOOLEAN :
       typeCall = [pick |-> GetRandomElement(EVENT_TYPES, r1), spike |-> spike,
                   r |-> r2, out |-> "none"]

\* lines 46-65 run
ChooseTypeCall ==
  /\ typeCall.pick # "none"
  /\ typeCall.out = "none"
  /\ typeCall' = [typeCall EXCEPT
                    !.out = ChooseType(typeCall.pick, typeCall.spike, typeCall.r)]
  /\ UNCHANGED <<ipCall, procVars, storeVars, clockVars, simVars, gen, sweeps, attackVars>>

(* -------------------------------------------------------- specifications *)
\* start() as the server calls it: once, at boot
StartOnce == starts < 1 /\ Start

\* the steady loop: one start(), the ticks, the spike flag, the CRUD layer
\* changing the users and the files under the ticks
NextGen ==
  \/ \E u \in UserIds : CreateUser(u)
  \/ \E u \in UserIds : DeleteUser(u)
  \/ \E f \in {"f1", "f2"} : CreateFile(f)
  \/ \E f \in {"f1", "f2"} : DeleteFile(f)
  \/ StartOnce
  \/ SpikeStart
  \/ SpikeEnd
  \/ TickFire(MaxTicks)
  \/ \E i \in 1..Len(gen) : UsersReturn(i)
  \/ \E i \in 1..Len(gen) : FilesReturn(i)
  \/ \E i \in 1..Len(gen) : CreateReturn(i)
  \/ \E i \in 1..Len(gen) : GenFail(i)

SpecGen == Init /\ [][NextGen]_vars

\* the timers: start() and stop() in any order, the spike cycle, the sweeps
NextTimers ==
  \/ Start
  \/ Stop
  \/ Signal
  \/ Exit
  \/ ExitFail
  \/ SpikeStart
  \/ SpikeEnd
  \/ SweepFireInitial
  \/ SweepFireHourly
  \/ \E i \in 1..Len(sweeps) : SweepReturn(i)
  \/ \E i \in 1..Len(sweeps) : SweepFail(i)

SpecTimers == Init /\ [][NextTimers]_vars

\* retention: ticks write rows while the clock advances and sweeps run
\* (the store answers every call of a tick; a sweep's deleteMany may reject)
NextSweep ==
  \/ StartOnce
  \/ AdvanceClock
  \/ TickFire(MaxSweepTicks)
  \/ \E i \in 1..Len(gen) : UsersReturn(i)
  \/ \E i \in 1..Len(gen) : FilesReturn(i)
  \/ \E i \in 1..Len(gen) : CreateReturn(i)
  \/ SweepFireInitial
  \/ SweepFireHourly
  \/ \E i \in 1..Len(sweeps) : SweepReturn(i)
  \/ \E i \in 1..Len(sweeps) : SweepFail(i)

SpecSweep == Init /\ [][NextSweep]_vars

\* the steady loop under store errors, stop() and the shutdown of the server:
\* several ticks, any store call of a tick may reject
NextGenFail ==
  \/ \E u \in {"u1"} : CreateUser(u)
  \/ \E f \in {"f1"} : CreateFile(f)
  \/ StartOnce
  \/ Stop
  \/ Signal
  \/ Exit
  \/ ExitFail
  \/ TickFire(MaxFailTicks)
  \/ \E i \in 1..Len(gen) : UsersReturn(i)
  \/ \E i \in 1..Len(gen) : FilesReturn(i)
  \/ \E i \in 1..Len(gen) : CreateReturn(i)
  \/ \E i \in 1..Len(gen) : GenFail(i)

SpecGenFail == Init /\ [][NextGenFail]_vars

\* the store answers the call that invocation i of generateEvent() awaits:
\* with the rows read, with the row stored, or with a rejection
StoreAnswers(i) ==
  /\ i \in 1..Len(gen)
  /\ UsersReturn(i) \/ FilesReturn(i) \/ CreateReturn(i) \/ GenFail(i)

\* the steady loop around stop() and the shutdown of the server: ticks in
\* flight while stop() is called, the CRUD layer deleting the link a pending
\* create names, any store call of a tick may reject, and the store
\* answers every call of a running process
NextStopLive ==
  \/ \E u \in {"u1"} : CreateUser(u)
  \/ \E f \in {"f1"} : CreateFile(f)
  \/ \E f \in {"f1"} : DeleteFile(f)
  \/ StartOnce
  \/ Stop
  \/ Signal
  \/ Exit
  \/ ExitFail
  \/ TickFire(MaxFailTicks)
  \/ \E i \in 1..Len(gen) : UsersReturn(i)
  \/ \E i \in 1..Len(gen) : FilesReturn(i)
  \/ \E i \in 1..Len(gen) : CreateReturn(i)
  \/ \E i \in 1..Len(gen) : GenFail(i)

SpecStopLive ==
  /\ Init /\ [][NextStopLive]_vars
  /\ \A i \in 1..MaxFailTicks : WF_vars(StoreAnswers(i))

\* the spike cycle under fair timers: the server starts the simulator, a due
\* timer fires, the event loop is never blocked; stop() may come at any time
NextSpikeLive ==
  \/ \E u \in {"u1"} : CreateUser(u)
  \/ StartOnce
  \/ Stop
  \/ Signal
  \/ Exit
  \/ ExitFail
  \/ SpikeStart
  \/ SpikeEnd
  \/ TickFire(MaxTicks)
  \/ \E i \in 1..Len(gen) : UsersReturn(i)
  \/ \E i \in 1..Len(gen) : FilesReturn(i)
  \/ \E i \in 1..Len(gen) : CreateReturn(i)
  \/ \E i \in 1..Len(gen) : GenFail(i)

SpecSpikeLive ==
  /\ Init /\ [][NextSpikeLive]_vars
  /\ WF_vars(StartOnce) /\ WF_vars(SpikeStart) /\ WF_vars(SpikeEnd)

\* overlapping attack bursts while file links are created; the store answers
\* every call
NextOverlap ==
  \/ \E u \in UserIds : CreateUser(u)
  \/ \E f \in {"f1", "f2"} : CreateFile(f)
  \/ InjectAttackCallUpTo(MaxOverlap)
  \/ \E a \in 1..Len(attacks) : InjectAttackReturn(a)
  \/ \E t \in attackTimers : AttackFire(t)
  \/ \E w \in attackWrites : AttackWriteReturn(w)

SpecOverlap == Init /\ [][NextOverlap]_vars

\* the cleanup timers under fair firing: the server starts the simulator, a
\* due timer fires; stop() may come at any time, the clock advances
NextSweepLive ==
  \/ StartOnce
  \/ Stop
  \/ Signal
  \/ Exit
  \/ ExitFail
  \/ AdvanceClock
  \/ SpikeStart
  \/ SpikeEnd
  \/ SweepFireInitial
  \/ SweepFireHourly
  \/ \E i \in 1..Len(sweeps) : SweepReturn(i)
  \/ \E i \in 1..Len(sweeps) : SweepFail(i)

SpecSweepLive ==
  /\ Init /\ [][NextSweepLive]_vars
  /\ WF_vars(StartOnce) /\ WF_vars(SweepFireInitial) /\ WF_vars(SweepFireHourly)

\* the choice of the event type over every draw
NextType == ChooseTypeCall

SpecType == InitType /\ [][NextType]_vars

\* calls of generateRandomIP() over every range
NextIP == GenerateRandomIPCall

SpecIP == InitIP /\ [][NextIP]_vars

\* attack bursts over a file table the CRUD layer changes
NextAttack ==
  \/ \E u \in UserIds : CreateUser(u)
  \/ \E f \in FileIds : CreateFile(f)
  \/ \E f \in FileIds : DeleteFile(f)
  \/ SeedAuditLogs
  \/ SeedLinks
  \/ SeedUsers
  \/ InjectAttackCall
  \/ \E a \in 1..Len(attacks) : InjectAttackReturn(a)
  \/ \E a \in 1..Len(attacks) : InjectAttackFail(a)
  \/ \E t \in attackTimers : AttackFire(t)
  \/ \E w \in attackWrites : AttackWriteReturn(w)
  \/ \E w \in attackWrites : AttackWriteFail(w)

SpecAttack == Init /\ [][NextAttack]_vars

\* the end of the simulator while a burst is under way: the server has started
\* the simulator, injectAttack() has armed its timers, and before the last of
\* them has fired stop() is called, alone or by the signal that also shuts the
\* server down; the store answers every read and every create, the disconnect
\* of the shutdown may reject
StopDuringBurst == attackTimers # {} /\ Stop

SignalDuringBurst == attackTimers # {} /\ Signal

NextAttackStop ==
  \/ \E u \in UserIds : CreateUser(u)
  \/ \E f \in {"f1", "f2"} : CreateFile(f)
  \/ StartOnce
  \/ StopDuringBurst
  \/ SignalDuringBurst
  \/ Exit
  \/ ExitFail
  \/ InjectAttackCall
  \/ \E a \in 1..Len(attacks) : InjectAttackReturn(a)
  \/ \E t \in attackTimers : AttackFire(t)
  \/ \E w \in attackWrites : AttackWriteReturn(w)

\* a due timer fires and the store answers a create
SpecAttackStop ==
  /\ Init /\ [][NextAttackStop]_vars
  /\ WF_vars(\E t \in attackTimers : AttackFire(t))
  /\ WF_vars(\E w \in attackWrites : AttackWriteReturn(w))

(* ------------------------------------------------------------ the claims *)
SteadyRows == {e \in auditLog : e.origin[1] = "steady"}
AttackRows == {e \in auditLog : e.origin[1] = "attack"}
FailedTypes == {"failedLogin", "failedDownload"}
SpikeTimers == {t \in timers : t.kind \in {"nextSpike", "spikeEnd"}}
CleanupTimers == {t \in timers : t.kind \in {"cleanupInterval", "cleanupInitial"}}
\* stop() has been called since start(), or the shutdown of the server has begun
Halted == stopped \/ proc # "running"

\* C1 (SpecGen): every login or failedLogin row a steady tick stored has an
\* actor; the segment of generateEvent() that chooses a login type takes the
\* actor from the tick's user snapshot, and with an empty snapshot it ends the
\* tick as skipped (not as an error) and stores nothing, then or later.
C1_LoginActor ==
  /\ [](\A e \in SteadyRows : IsLoginType(e.eventType) => e.userId # Null)
  /\ [](\A i \in 1..Len(gen) :
          gen[i].outcome = "skipped" =>
            /\ IsLoginType(gen[i].type)
            /\ ~\E e \in auditLog : e.origin = <<"steady", i, 0>>)
  /\ [][\A i \in 1..Len(gen) :
          (gen[i].pc = "files" /\ gen'[i].pc # "files"
             /\ gen'[i].outcome # "error" /\ IsLoginType(gen'[i].type)) =>
            IF gen[i].users = <<>>
            THEN gen'[i].outcome = "skipped" /\ auditLog' = auditLog
                   /\ unhandled' = unhandled
            ELSE gen'[i].pc = "create"
                   /\ gen'[i].data.userId \in Range(gen[i].users)]_vars

\* a tick chose a login type over an empty user snapshot and was skipped
C1_Witness ==
  \E i \in 1..Len(gen) :
    gen[i].outcome = "skipped" /\ IsLoginType(gen[i].type) /\ auditLog = {}

\* C2 (SpecGen): an invocation of generateEvent() that read isSpike = TRUE at
\* line 51 chose failedLogin or failedDownload, that is the type of the event
\* it creates, and the row its create stores has that type.
C2_SpikeTypes ==
  /\ [](\A i \in 1..Len(gen) :
          gen[i].readSpike =>
            /\ gen[i].pc = "create"
            /\ gen[i].type \in FailedTypes
            /\ gen[i].data.eventType = gen[i].type)
  /\ [][\A i \in 1..Len(gen) :
          (gen[i].readSpike /\ gen'[i].outcome = "written") =>
            \E e \in auditLog' :
              /\ e.origin = <<"steady", i, 0>>
              /\ e.eventType \in FailedTypes
              /\ auditLog' = auditLog \cup {e}]_vars

\* a tick that fired before the spike window opened has read the flag as TRUE
\* and awaits its create
C2_Witness ==
  \E i \in 1..Len(gen) :
    gen[i].pc = "create" /\ gen[i].readSpike /\ ~gen[i].firedSpike

\* C3 (SpecGenFail): once stop() has returned after the one start(), the steady
\* interval is not pending and no tick fires; what an earlier tick still has
\* in flight may complete.
C3_NoTickAfterStop ==
  /\ []((stopped /\ starts = 1) => ~\E t \in timers : t.kind = "steady")
  /\ [][(stopped /\ starts = 1) => Len(gen') = Len(gen)]_vars

\* stop() has returned while a tick that fired before it awaits its create
C3_Witness ==
  /\ stopped /\ starts = 1
  /\ \E i \in 1..Len(gen) : gen[i].pc = "create"

\* C4 (SpecTimers): after stop() has returned no spike timer is pending (stated
\* for runs with one start(); the spike-end timer of an open window is not
\* tracked and survives stop()).
C4_StopCancelsSpikeTimers ==
  (stopped /\ starts = 1) => SpikeTimers = {}

\* C5 (SpecTimers): stop() cancels the cleanup timers, so that once stop() has
\* returned no retention sweep starts, neither the initial nor an hourly one
\* (stated for runs with one start()).
C5_StopCancelsCleanup ==
  [][(stopped /\ starts = 1) => Len(sweeps') = Len(sweeps)]_vars

\* C6 (SpecSweep): a sweep called at time `at` whose deleteMany succeeds leaves
\* exactly the rows with timestamp >= at - 30 days (in hours), unchanged, and
\* reports the number of rows it deleted.
C6_SweepDeletesOlder ==
  [][\A i \in 1..Len(sweeps) :
       (sweeps[i].pc = "delete" /\ sweeps'[i].outcome = "ok") =>
         LET horizon == sweeps[i].at - 720
         IN  /\ auditLog' = {e \in auditLog : e.timestamp >= horizon}
             /\ \A e \in auditLog' : ~(e.timestamp < horizon)
             /\ sweeps'[i].count
                  = Cardinality({e \in auditLog : e.timestamp < horizon})]_vars

\* a sweep has deleted a row and has kept a row stamped exactly at its cutoff
C6_Witness ==
  \E i \in 1..Len(sweeps) :
    /\ sweeps[i].outcome = "ok"
    /\ sweeps[i].count > 0
    /\ \E e \in auditLog : e.timestamp = sweeps[i].cutoff

\* the rows, the pending writes and the pending timers of invocation a
RowsOf(a) == {e \in AttackRows : e.origin[2] = a}
WritesOf(a) == {w \in attackWrites : w.origin[2] = a}
TimersOf(a) == {t \in attackTimers : t.inv = a}
AttackDetails == "File downloaded successfully - ATTACK SIMULATION"

\* C7 (SpecAttack): when injectAttack() has read N >= 1 file links it
\* schedules exactly N timers, one per file of the snapshot; every write of the
\* burst, pending or stored, is a download with null actor, a file of the
\* snapshot at its index as target, the attack detail, and the one address and
\* the one agent the invocation drew.
C7_BurstWrites ==
  /\ [](\A a \in 1..Len(attacks) :
          \A w \in WritesOf(a) \cup RowsOf(a) :
            /\ w.eventType = "download"
            /\ w.userId = Null
            /\ w.origin[3] \in 0..(Len(attacks[a].files) - 1)
            /\ w.fileId = attacks[a].files[w.origin[3] + 1]
            /\ w.details = AttackDetails
            /\ w.ipAddress = attacks[a].ip
            /\ w.userAgent = attacks[a].ua)
  /\ [][\A a \in 1..Len(attacks) :
          (attacks[a].pc = "files" /\ attacks'[a].read = "ok"
             /\ Len(attacks'[a].files) >= 1) =>
            LET new == attackTimers' \ attackTimers
                fs == attacks'[a].files
            IN  /\ fs = AllFiles(files)
                /\ Cardinality(new) = Len(fs)
                /\ attackTimers \subseteq attackTimers'
                /\ \A k \in 1..Len(fs) :
                     Cardinality({t \in new : t.inv = a /\ t.index = k - 1
                                              /\ t.file = fs[k]}) = 1
                /\ \A t \in new : t.ip = attacks'[a].ip /\ t.ua = attacks'[a].ua]_vars

\* the three writes of a burst over three files are all stored
C7_Witness ==
  \E a \in 1..Len(attacks) :
    Len(attacks[a].files) = 3 /\ Cardinality(RowsOf(a)) = 3

\* C8 (SpecAttack): the timer of index i of a burst over N files has delay
\* i * 50000 / N ms (as an exact fraction): 0 for the first, strictly
\* increasing with the index, below 50000.
C8_BurstDelays ==
  \A t \in attackTimers :
    /\ t.n >= 1 /\ t.index \in 0..(t.n - 1)
    /\ t.delay.den > 0
    /\ t.delay.num * t.n = t.index * 50000 * t.delay.den
    /\ t.index = 0 => t.delay.num = 0
    /\ t.delay.num < 50000 * t.delay.den
    /\ \A t2 \in attackTimers :
         (t2.inv = t.inv /\ t.index < t2.index) =>
           t.delay.num * t2.delay.den < t2.delay.num * t.delay.den

\* the three timers of a burst over three files are pending
C8_Witness ==
  \E a \in 1..Len(attacks) :
    Len(attacks[a].files) = 3 /\ Cardinality(TimersOf(a)) = 3

\* C9 (SpecAttack): when findMany answers injectAttack() with no file link,
\* the call returns a success result (it does not take the catch), schedules
\* no timer, and no write of that invocation is ever pending or stored.
C9_ZeroFiles ==
  /\ [](\A a \in 1..Len(attacks) :
          (attacks[a].read = "ok" /\ attacks[a].files = <<>>) =>
            /\ attacks[a].pc = "returned"
            /\ attacks[a].result.success
            /\ attacks[a].result.count = 0
            /\ TimersOf(a) = {} /\ WritesOf(a) = {} /\ RowsOf(a) = {})
  /\ [][\A a \in 1..Len(attacks) :
          (attacks[a].pc = "files" /\ attacks'[a].read = "ok"
             /\ attacks'[a].files = <<>>) =>
            /\ attackTimers' = attackTimers
            /\ auditLog' = auditLog
            /\ unhandled' = unhandled]_vars

\* injectAttack() has returned over an empty file table
C9_Witness ==
  \E a \in 1..Len(attacks) :
    attacks[a].pc = "returned" /\ attacks[a].read = "ok" /\ attacks[a].files = <<>>

\* C10 (SpecAttack): with zero files injectAttack() returns a result of its
\* own, not the "Attack injection started" result it returns for N >= 1 files.
C10_ZeroFilesDistinctResult ==
  \A a \in 1..Len(attacks) :
    (attacks[a].read = "ok" /\ attacks[a].files = <<>>) =>
      attacks[a].result.message # "Attack injection started"

\* C11 (SpecAttack): injectAttack() returns without waiting for its burst.
\* While it awaits findMany it has no timer and no write; the step in which
\* findMany answers with N >= 1 files returns the success result for N files
\* with all N timers still pending, no write of the burst issued or stored.
C11_ReturnsBeforeBurst ==
  /\ [](\A a \in 1..Len(attacks) :
          attacks[a].pc = "files" =>
            TimersOf(a) = {} /\ WritesOf(a) = {} /\ RowsOf(a) = {})
  /\ [][\A a \in 1..Len(attacks) :
          (attacks[a].pc = "files" /\ attacks'[a].read = "ok"
             /\ Len(attacks'[a].files) >= 1) =>
            /\ attacks'[a].pc = "returned"
            /\ attacks'[a].result.success
            /\ attacks'[a].result.count = Len(attacks'[a].files)
            /\ Cardinality({t \in attackTimers' : t.inv = a})
                 = Len(attacks'[a].files)
            /\ {w \in attackWrites' : w.origin[2] = a} = {}
            /\ auditLog' = auditLog]_vars

\* injectAttack() has returned success over two files and neither of its two
\* timers has fired yet
C11_Witness ==
  \E a \in 1..Len(attacks) :
    /\ attacks[a].pc = "returned" /\ attacks[a].result.success
    /\ Len(attacks[a].files) = 2
    /\ Cardinality(TimersOf(a)) = 2 /\ WritesOf(a) = {} /\ RowsOf(a) = {}

\* C12 (SpecGenFail): a store call of a tick that rejects (the user read, the
\* file read or the create) ends that tick alone: the step changes no timer,
\* no field of the simulator and no row, nothing is left unhandled, no new
\* invocation is made for the failed tick, and no row of the failed tick is
\* ever stored; until stop() or the shutdown of the server the steady interval
\* stays pending.
C12_TickErrorCaught ==
  /\ [][\A i \in 1..Len(gen) :
          (gen[i].pc \in {"users", "files", "create"}
             /\ gen'[i].outcome = "error") =>
            /\ timers' = timers
            /\ intervalId' = intervalId
            /\ auditLog' = auditLog
            /\ unhandled' = unhandled
            /\ Len(gen') = Len(gen)
            /\ gen'[i].pc = "done"]_vars
  /\ [](\A i \in 1..Len(gen) :
          gen[i].outcome = "error" =>
            /\ ~\E e \in auditLog : e.origin = <<"steady", i, 0>>
            /\ (starts = 1 /\ ~Halted) =>
                 \E t \in timers : t.kind = "steady" /\ t.id = intervalId)

\* the first tick failed at its create, a later tick fired and stored its event
C12_Witness ==
  /\ Len(gen) = 2
  /\ gen[1].outcome = "error" /\ gen[1].type # "none"
  /\ gen[2].outcome = "written"
  /\ \E e \in auditLog : e.origin = <<"steady", 2, 0>>
  /\ ~\E e \in auditLog : e.origin = <<"steady", 1, 0>>

\* C13 (SpecSweep): a deleteMany of a sweep that rejects ends that sweep alone:
\* the step changes no row and no timer and leaves nothing unhandled, and the
\* hourly interval armed by start() stays pending, so later sweeps still run.
C13_SweepErrorCaught ==
  /\ [][\A i \in 1..Len(sweeps) :
          (sweeps[i].pc = "delete" /\ sweeps'[i].outcome = "error") =>
            /\ auditLog' = auditLog
            /\ timers' = timers
            /\ unhandled' = unhandled
            /\ sweeps'[i].pc = "done"]_vars
  /\ [](starts >= 1 => \E t \in timers : t.kind = "cleanupInterval")
  /\ [](unhandled = 0)

\* the initial sweep failed, and the hourly sweep that ran after it deleted a row
C13_Witness ==
  /\ Len(sweeps) = 2
  /\ sweeps[1].kind = "initial" /\ sweeps[1].outcome = "error"
  /\ sweeps[2].kind = "hourly" /\ sweeps[2].outcome = "ok"
  /\ sweeps[2].count > 0

\* C14 (SpecAttack): a create of an attack burst that rejects is caught in its
\* timer callback: no rejection is ever left unhandled.
C14_BurstWriteErrorCaught ==
  unhandled = 0

\* C15 (SpecSpikeLive): after start(), with timers that fire when due, an open
\* spike window closes and a closed one opens again unless stop() is called
\* (by a caller or by the signal that shuts the server down); if stop() is
\* never called there are infinitely many windows.
C15_SpikeCycle ==
  /\ (starts = 1 /\ isSpike) ~> (~isSpike \/ Halted)
  /\ (starts = 1 /\ ~isSpike) ~> (isSpike \/ Halted)
  /\ (<>Halted \/ ([]<>isSpike /\ []<>(starts = 1 /\ ~isSpike)))

\* a window has closed and its callback has scheduled the next spike: the
\* pending next-spike timer is not the one start() armed
C15_Witness ==
  /\ starts = 1 /\ ~Halted /\ ~isSpike
  /\ \E t \in timers :
       t.kind = "nextSpike" /\ t.id = spikeTimeoutId /\ t.id # intervalId + 1

\* bit i (0: the most significant) of an address given by its four octets
OctetBit(o, i) == (o[(i \div 8) + 1] \div Pow2(7 - (i % 8))) % 2
\* the low h bits (h <= 24) of an address given by its four octets
HostPart(o, h) == (o[2] * 65536 + o[3] * 256 + o[4]) % Pow2(h)

\* C16 (SpecIP): for every range and every host draw, the address
\* generateRandomIP() returns is four octets of 0..255 whose first `prefix`
\* bits are those of the range's network and whose host part is the drawn
\* offset, neither 0 (network address) nor all ones (broadcast address).
C16_AddressInRange ==
  ipCall.out # <<>> =>
    LET range == AUSTRALIAN_IP_RANGES[ipCall.range]
        o == ipCall.out
        h == 32 - range.prefix
    IN  /\ Len(o) = 4
        /\ \A k \in 1..4 : o[k] \in 0..255
        /\ \A i \in 0..(range.prefix - 1) :
             OctetBit(o, i) = OctetBit(range.network, i)
        /\ HostPart(o, h) = ipCall.draw + 1
        /\ HostPart(o, h) # 0
        /\ HostPart(o, h) # Pow2(h) - 1

\* an address of a range whose first octet is >= 128 (the packed network is
\* negative as a 32-bit integer) was produced for the largest host draw
C16_Witness ==
  /\ ipCall.out # <<>>
  /\ AUSTRALIAN_IP_RANGES[ipCall.range].network[1] >= 128
  /\ PackOctets(AUSTRALIAN_IP_RANGES[ipCall.range].network, 1, 0) < 0
  /\ ipCall.draw = MaxHosts(32 - AUSTRALIAN_IP_RANGES[ipCall.range].prefix) - 1

\* C17 (SpecGen): the segment of generateEvent() that chooses download or
\* failedDownload never skips the tick: it goes on to the create, and when the
\* file read returned no file the event has null target and null actor, the
\* chosen type and that type's detail; a skipped tick never has a download type.
C17_DownloadWithoutFile ==
  /\ [][\A i \in 1..Len(gen) :
          (gen[i].pc = "files" /\ gen'[i].pc # "files"
             /\ gen'[i].outcome # "error" /\ IsDownloadType(gen'[i].type)) =>
            /\ gen'[i].pc = "create"
            /\ gen'[i].data.eventType = gen'[i].type
            /\ files = <<>> =>
                 /\ gen'[i].data.fileId = Null
                 /\ gen'[i].data.userId = Null
                 /\ gen'[i].data.details # Null]_vars
  /\ [](\A i \in 1..Len(gen) :
          gen[i].outcome = "skipped" => ~IsDownloadType(gen[i].type))
  /\ [](\A e \in SteadyRows :
          (IsDownloadType(e.eventType) /\ e.fileId = Null) => e.userId = Null)

\* a tick found users but no file, chose a download type and stored its event
\* with null target and null actor
C17_Witness ==
  /\ users # <<>>
  /\ \E i \in 1..Len(gen) :
       /\ gen[i].outcome = "written" /\ IsDownloadType(gen[i].type)
       /\ \E e \in auditLog :
            /\ e.origin = <<"steady", i, 0>>
            /\ e.eventType = gen[i].type
            /\ e.fileId = Null /\ e.userId = Null

\* C18 (SpecGen): the event of a tick follows the spike flag as it was when
\* the tick fired: a tick that fired inside a spike window creates a
\* failedLogin or failedDownload event, whatever happens to the flag while its
\* reads are in flight.
C18_TypeFollowsFlagAtFire ==
  \A i \in 1..Len(gen) :
    (gen[i].pc = "create" /\ gen[i].firedSpike) => gen[i].type \in FailedTypes

\* C19 (SpecStopLive), as stated: stop() leaves the invocations of
\* generateEvent() in flight as they are, and every step taken after stop()
\* leaves each of them either still in flight in the running process or
\* completed with its event written to the audit store.
C19_StopKeepsInFlight ==
  /\ [][(~stopped /\ stopped') => (gen' = gen /\ auditLog' = auditLog)]_vars
  /\ [][\A i \in 1..Len(gen) :
          (stopped /\ gen[i].pc # "done") =>
            \/ gen'[i].pc # "done" /\ Running'
            \/ /\ gen'[i].outcome = "written"
               /\ Row(gen[i].data, now) \in auditLog']_vars

\* C19 (SpecStopLive), amended: stop() itself cancels nothing in flight.
\* While the process runs each invocation in flight after stop() can take its
\* next step, and with the store answering every call all of them complete
\* unless the process exits first.  An invocation completes with its event
\* written to the audit store, except that a store call that rejects ends it
\* in the catch without an event and a login type drawn with no users ends it
\* without an event.
\* Once the process has exited no invocation takes another step.
C19_InFlightCompletes ==
  /\ [][(~stopped /\ stopped') => (gen' = gen /\ auditLog' = auditLog)]_vars
  /\ []((stopped /\ Running) =>
          \A i \in 1..Len(gen) :
            /\ gen[i].pc = "users" => ENABLED UsersReturn(i)
            /\ gen[i].pc = "files" => ENABLED FilesReturn(i)
            /\ (gen[i].pc = "create" /\ Referenced(gen[i].data, users, files))
                 => ENABLED CreateReturn(i))
  /\ [][\A i \in 1..Len(gen) :
          (stopped /\ gen[i].pc # "done" /\ gen'[i].pc = "done") =>
            \/ /\ gen'[i].outcome = "written"
               /\ gen[i].pc = "create"
               /\ Row(gen[i].data, now) \notin auditLog
               /\ auditLog' = auditLog \cup {Row(gen[i].data, now)}
            \/ /\ gen'[i].outcome = "skipped"
               /\ gen[i].pc = "files"
               /\ IsLoginType(gen'[i].type) /\ gen[i].users = <<>>
               /\ auditLog' = auditLog
            \/ /\ gen'[i].outcome = "error"
               /\ auditLog' = auditLog]_vars
  /\ (stopped /\ \E i \in 1..Len(gen) : gen[i].pc # "done") ~>
       (~Running \/ \A i \in 1..Len(gen) : gen[i].pc = "done")
  /\ [][~Running' => gen' = gen]_vars

\* the signal has called stop() and the process still runs, while one tick
\* awaits its first read and another its create
C19_Witness ==
  /\ stopped /\ starts = 1 /\ proc = "shutting"
  /\ \E i \in 1..Len(gen) : gen[i].pc = "users"
  /\ \E i \in 1..Len(gen) : gen[i].pc = "create" /\ ENABLED CreateReturn(i)

\* what invocation a of injectAttack() has scheduled, issued and stored
BurstOf(a) == <<TimersOf(a), WritesOf(a), RowsOf(a)>>

\* C20 (SpecOverlap): invocations of injectAttack() that overlap are
\* independent.  Every invocation that has read N files has exactly N writes,
\* each pending as a timer, issued or stored, none lost and none doubled; each
\* carries the file of its index in that invocation's snapshot and the address
\* and the agent that invocation drew; a step that changes the burst of one
\* invocation changes neither another invocation nor its burst; and the
\* earliest pending timer of an invocation can fire whatever the others do.
C20_OverlapIndependent ==
  /\ [](\A a \in 1..Len(attacks) :
          /\ attacks[a].read = "ok" =>
               /\ Cardinality(TimersOf(a)) + Cardinality(WritesOf(a))
                    + Cardinality(RowsOf(a)) = Len(attacks[a].files)
               /\ \A k \in 0..(Len(attacks[a].files) - 1) :
                    Cardinality({t \in TimersOf(a) : t.index = k})
                      + Cardinality({w \in WritesOf(a) \cup RowsOf(a) :
                                       w.origin[3] = k}) = 1
          /\ \A t \in TimersOf(a) :
               /\ t.file = attacks[a].files[t.index + 1]
               /\ t.ip = attacks[a].ip /\ t.ua = attacks[a].ua
               /\ (~\E t2 \in TimersOf(a) : MsLess(t2.delay, t.delay))
                    => ENABLED AttackFire(t)
          /\ \A w \in WritesOf(a) \cup RowsOf(a) :
               /\ w.fileId = attacks[a].files[w.origin[3] + 1]
               /\ w.ipAddress = attacks[a].ip /\ w.userAgent = attacks[a].ua)
  /\ [][\A a \in 1..Len(attacks) : \A b \in 1..Len(attacks) :
          (a # b /\ (BurstOf(a)' # BurstOf(a) \/ attacks'[a] # attacks[a])) =>
            (BurstOf(b)' = BurstOf(b) /\ attacks'[b] = attacks[b])]_vars

\* two bursts interleave: the second invocation drew another address, its
\* write is stored while the first invocation, over two files, has stored one
\* write and still has the timer of the other pending
C20_Witness ==
  /\ Len(attacks) = 2
  /\ attacks[1].read = "ok" /\ attacks[2].read = "ok"
  /\ attacks[1].ip # attacks[2].ip
  /\ Len(attacks[1].files) = 2
  /\ Cardinality(RowsOf(1)) = 1 /\ Cardinality(TimersOf(1)) = 1
  /\ Cardinality(RowsOf(2)) >= 1

\* C21 (SpecType): with the spike flag false the type chosen by lines 46-65
\* is download for r < 0.5, login for 0.5 <= r < 0.8, failedDownload for
\* 0.8 <= r < 0.9 and failedLogin for r >= 0.9, one of the four types for
\* every r, whatever the uniform pick of line 46 was.
C21_SteadyThresholds ==
  (typeCall.out # "none" /\ ~typeCall.spike) =>
    /\ typeCall.out \in {"download", "login", "failedDownload", "failedLogin"}
    /\ typeCall.out = "download" <=> typeCall.r < 50
    /\ typeCall.out = "login" <=> (50 <= typeCall.r /\ typeCall.r < 80)
    /\ typeCall.out = "failedDownload" <=> (80 <= typeCall.r /\ typeCall.r < 90)
    /\ typeCall.out = "failedLogin" <=> typeCall.r >= 90

\* the uniform pick was download, the draw was 0.9: failedLogin was chosen
C21_Witness ==
  /\ ~typeCall.spike /\ typeCall.pick = "download" /\ typeCall.r = 90
  /\ typeCall.out = "failedLogin"

\* the rows the tick of invocation i has stored
RowsOfTick(i) == {e \in SteadyRows : e.origin[2] = i}

\* C22 (SpecGenFail): the steady loop stores at most one row per tick that has
\* fired: every steady row belongs to a tick that fired, a tick has one row
\* if its create was answered and none otherwise, so the number of steady rows
\* never exceeds the number of ticks.
C22_AtMostOnePerTick ==
  /\ \A e \in SteadyRows : e.origin[2] \in 1..Len(gen)
  /\ \A i \in 1..Len(gen) :
       Cardinality(RowsOfTick(i)) = IF gen[i].outcome = "written" THEN 1 ELSE 0
  /\ Cardinality(SteadyRows) <= Len(gen)

\* two ticks have fired and returned: the first was skipped, the second stored
\* its one event
C22_Witness ==
  /\ Len(gen) = 2
  /\ gen[1].outcome = "skipped" /\ gen[2].outcome = "written"
  /\ Cardinality(SteadyRows) = 1

\* C23 (SpecGen): the segment of generateEvent() that chooses download or
\* failedDownload takes the target from the file read of the tick (null only
\* when that read returned no file) and the actor is null or the owner of
\* that target; the create stores that event as built, so every stored
\* download row of the steady loop has a null actor or a target and its owner.
C23_DownloadActorIsOwner ==
  /\ [][\A i \in 1..Len(gen) :
          (gen[i].pc = "files" /\ gen'[i].pc = "create"
             /\ IsDownloadType(gen'[i].type)) =>
            LET d == gen'[i].data
                snapshot == Take(files, TakeRecent)
            IN  /\ d.fileId = Null <=> snapshot = <<>>
                /\ d.fileId # Null => d.fileId \in Range(snapshot)
                /\ d.userId # Null =>
                     (d.fileId # Null /\ d.userId = OwnerOf(d.fileId))]_vars
  /\ [][\A i \in 1..Len(gen) :
          (gen[i].pc = "create" /\ gen'[i].outcome = "written") =>
            auditLog' = auditLog \cup {Row(gen[i].data, now)}]_vars
  /\ [](\A e \in SteadyRows :
          (IsDownloadType(e.eventType) /\ e.userId # Null) =>
            (e.fileId # Null /\ e.userId = OwnerOf(e.fileId)))

\* two file links with different owners are in the store, and a download row
\* has the older link as target and that link's owner as actor
C23_Witness ==
  files = <<"f2", "f1">> /\ \E e \in SteadyRows :
    /\ IsDownloadType(e.eventType)
    /\ e.fileId = "f1" /\ e.userId = OwnerOf("f1")
    /\ OwnerOf("f1") # OwnerOf("f2")

\* C24 (SpecSweepLive): after the one start() the first sweep of the run is
\* the initial one and every later sweep is an hourly one; the hourly interval
\* stays pending while the process runs, and with timers that fire when due,
\* no stop() and no shutdown a further sweep always starts (for every number
\* of sweeps below the bound MaxSweeps).
C24_SweepsRecur ==
  /\ [](\A i \in 1..Len(sweeps) :
          sweeps[i].kind = IF i = 1 THEN "initial" ELSE "hourly")
  /\ []((starts = 1 /\ Running) => \E t \in timers : t.kind = "cleanupInterval")
  /\ <>(starts = 1 \/ Halted)
  /\ \A n \in 0..(MaxSweeps - 1) :
       (starts = 1 /\ Len(sweeps) = n) ~> (Len(sweeps) > n \/ Halted)

\* without a stop() the initial sweep and then an hourly sweep have started
C24_Witness ==
  /\ starts = 1 /\ ~Halted
  /\ Len(sweeps) = 2
  /\ sweeps[1].kind = "initial" /\ sweeps[2].kind = "hourly"
  /\ \E t \in timers : t.kind = "cleanupInterval"

\* C25 (SpecAttack): when the findMany of injectAttack() rejects, the call
\* still returns a result, {success: false, 'Failed to inject attack'}; the
\* step arms no timer, issues no write and leaves nothing unhandled, and that
\* invocation never has a timer, a pending write or a stored row.
C25_ReadErrorResult ==
  /\ [][\A a \in 1..Len(attacks) :
          (attacks[a].pc = "files" /\ attacks'[a].read = "error") =>
            /\ attacks'[a].pc = "returned"
            /\ ~attacks'[a].result.success
            /\ attacks'[a].result.message = "Failed to inject attack"
            /\ attackTimers' = attackTimers
            /\ attackWrites' = attackWrites
            /\ auditLog' = auditLog
            /\ unhandled' = unhandled]_vars
  /\ [](\A a \in 1..Len(attacks) :
          attacks[a].read = "error" =>
            /\ attacks[a].result.message = "Failed to inject attack"
            /\ TimersOf(a) = {} /\ WritesOf(a) = {} /\ RowsOf(a) = {})

\* the store holds file links, the read of injectAttack() failed and the call
\* has returned its failure result
C25_Witness ==
  /\ files # <<>>
  /\ \E a \in 1..Len(attacks) :
       /\ attacks[a].pc = "returned" /\ attacks[a].read = "error"
       /\ ~attacks[a].result.success
  /\ attackTimers = {} /\ auditLog = {}

\* C26 (SpecAttack): the targets of a burst are the file links injectAttack()
\* read.  For every index of the snapshot there is exactly one write, pending
\* as a timer with the delay of that index, issued, stored or failed, for the
\* file of that index; no timer and no write of the burst has another target;
\* the CRUD layer creating or deleting a file link changes no timer and no
\* issued write; and every timer of the burst, that of a deleted link
\* included, leaves the pending timers only by firing and issuing its create.
C26_SnapshotTargets ==
  /\ [](\A a \in 1..Len(attacks) :
          /\ \A t \in TimersOf(a) :
               /\ t.index \in 0..(Len(attacks[a].files) - 1)
               /\ t.file = attacks[a].files[t.index + 1]
               /\ t.delay = Delay(t.index, IntervalMs(Len(attacks[a].files)))
               /\ (~\E t2 \in TimersOf(a) : MsLess(t2.delay, t.delay))
                    => ENABLED AttackFire(t)
          /\ \A w \in WritesOf(a) \cup RowsOf(a) :
               /\ w.origin[3] \in 0..(Len(attacks[a].files) - 1)
               /\ w.fileId = attacks[a].files[w.origin[3] + 1])
  /\ [][\A t \in attackTimers :
          t \notin attackTimers' =>
            /\ AttackEvent(t) \in attackWrites'
            /\ AttackEvent(t).fileId = t.file]_vars
  /\ [][files' # files =>
          /\ attackTimers' = attackTimers
          /\ attackWrites' = attackWrites
          /\ attacks' = attacks
          /\ AttackRows' \subseteq AttackRows]_vars

\* C27 (SpecSpikeLive): with the simulator started once, whenever isSpike is
\* true in the running process exactly one spike-end timer is pending, also
\* after stop() in the middle of a window (stop() does not know that handle),
\* and so every open window is closed again by its timer unless the process
\* ends first.
C27_WindowHasEndTimer ==
  /\ []((isSpike /\ Running) =>
          Cardinality({t \in timers : t.kind = "spikeEnd"}) = 1)
  /\ (isSpike ~> (~isSpike \/ ~Running))

\* stop() has returned in the middle of a spike window: the flag is still on
\* and the one timer that ends the window is still pending
C27_Witness ==
  /\ stopped /\ isSpike /\ Running
  /\ Cardinality({t \in timers : t.kind = "spikeEnd"}) = 1
  /\ intervalId = NoHandle /\ spikeTimeoutId = NoHandle

\* C28 (SpecTimers): after any sequence of start() and stop() calls at most one
\* spike timer, next-spike or spike-end, is pending: a single spike chain
\* drives isSpike.
C28_OneSpikeChain ==
  Cardinality(SpikeTimers) <= 1

\* C29 (SpecTimers): after any sequence of start() and stop() calls at most one
\* steady-generation interval is active, and none once stop() has returned.
C29_OneSteadyInterval ==
  /\ Cardinality({t \in timers : t.kind = "steady"}) <= 1
  /\ stopped => {t \in timers : t.kind = "steady"} = {}

\* C30 (SpecAttackStop), as stated: stop() leaves an attack burst untouched,
\* so that no scheduled write of a burst is lost: at any time every index of
\* the snapshot has exactly one write, pending as a timer, issued or stored,
\* and a burst with nothing pending has all its N events in the audit store.
C30_StopLeavesBurst ==
  \A a \in 1..Len(attacks) :
    attacks[a].read = "ok" =>
      /\ \A k \in 0..(Len(attacks[a].files) - 1) :
           Cardinality({t \in TimersOf(a) : t.index = k})
             + Cardinality({w \in WritesOf(a) \cup RowsOf(a) :
                              w.origin[3] = k}) = 1
      /\ (TimersOf(a) = {} /\ WritesOf(a) = {}) =>
           Cardinality(RowsOf(a)) = Len(attacks[a].files)

\* C30 (SpecAttackStop), amended: a stop() called while timers of a burst are
\* pending, by a caller or by a signal, changes no timer, no write and no row
\* of the burst; while the process runs every index of the snapshot has
\* exactly one write, pending as a timer, issued or stored, and the earliest
\* pending timer can fire; with the store answering, all N attack events of
\* an invocation that read N files end up in the audit store unless the
\* process ends first, and the exit that follows the stop() of a signal
\* drops the timers and the writes still pending.
C30_BurstUntilExit ==
  /\ [][(attackTimers # {} /\ stopped' /\ Running'
           /\ (~stopped \/ timers' # timers \/ proc' # proc)) =>
          /\ attackTimers' = attackTimers
          /\ attackWrites' = attackWrites
          /\ attacks' = attacks
          /\ auditLog' = auditLog]_vars
  /\ []((stopped /\ Running) =>
          \A a \in 1..Len(attacks) :
            /\ attacks[a].read = "ok" =>
                 \A k \in 0..(Len(attacks[a].files) - 1) :
                   Cardinality({t \in TimersOf(a) : t.index = k})
                     + Cardinality({w \in WritesOf(a) \cup RowsOf(a) :
                                      w.origin[3] = k}) = 1
            /\ \A t \in TimersOf(a) :
                 (~\E t2 \in TimersOf(a) : MsLess(t2.delay, t.delay))
                   => ENABLED AttackFire(t))
  /\ [][(Running /\ ~Running') =>
          /\ attackTimers' = {} /\ attackWrites' = {}
          /\ auditLog' = auditLog]_vars
  /\ \A a \in 1..MaxAttacks :
       (Len(attacks) >= a /\ attacks[a].read = "ok") ~>
         \/ ~Running
         \/ /\ Len(attacks) >= a
            /\ TimersOf(a) = {} /\ WritesOf(a) = {}
            /\ Cardinality(RowsOf(a)) = Len(attacks[a].files)

\* the simulator was started and then stopped while a burst over two files
\* was under way; the process still runs and both attack events are in the
\* audit store
C30_Witness ==
  /\ starts = 1 /\ stopped /\ Running
  /\ \E a \in 1..Len(attacks) :
       /\ attacks[a].read = "ok" /\ Len(attacks[a].files) = 2
       /\ TimersOf(a) = {} /\ WritesOf(a) = {}
       /\ Cardinality(RowsOf(a)) = 2

====
